---- MODULE Spec2Model ----
(***************************************************************************)
(* Model of the docstring generation agent (src/src/agent.py) and of its   *)
(* HTTP endpoint (src/src/app.py).                                         *)
(*                                                                         *)
(* A text is a sequence of tokens.  A token is a literal piece of text     *)
(* that the code never looks inside of: the triple quote, the sentinel     *)
(* comment, "def ", a word, one space, one newline.  Every string          *)
(* operation of the code (split, splitlines, join, strip, lstrip,          *)
(* startswith, endswith, in, count, slicing, the three regular             *)
(* expressions) is computed on these sequences.                            *)
(***************************************************************************)
EXTENDS Integers, Sequences, FiniteSets, TLC

VARIABLES
    pc,               \* position of the operation being run
    code,             \* fix_docstring_indentation: its argument
    lines,            \* fix_docstring_indentation: code.split('\n')
    i,                \* fix_docstring_indentation: loop index (0-based)
    in_docstring,     \* fix_docstring_indentation: scanner flag
    docstring_indent, \* fix_docstring_indentation: recorded base indentation
    fixed_lines,      \* fix_docstring_indentation: emitted lines
    fixed,            \* fix_docstring_indentation: return value
    response,         \* extract_text_from_response: its argument
    extracted,        \* extract_text_from_response: what the call produced
    output,           \* clean_output: the generated text
    original_code,    \* clean_output: the text the user submitted
    cleaned,          \* clean_output: return value
    source_code,      \* generate_docstrings: its argument
    documented_code,  \* generate_docstrings: return value
    returned_at,      \* generate_docstrings: the return statement taken
    exception,        \* generate_docstrings: the exception its handler caught
    llm_calls,        \* number of chain.invoke calls made so far
    status,           \* endpoint: HTTP status of the last response
    message,          \* endpoint: CodeResponse.message of the last response
    requests          \* number of calls served so far

fixVars == <<code, lines, i, in_docstring, docstring_indent, fixed_lines, fixed>>
extractVars == <<response, extracted>>
cleanVars == <<output, original_code, cleaned>>
httpVars == <<source_code, documented_code, returned_at, exception, llm_calls,
              status, message, requests>>

vars == <<pc, fixVars, extractVars, cleanVars, httpVars>>

-----------------------------------------------------------------------------
(* Tokens *)

NL == "\n"
SP == " "
TripleQuote == "\"\"\""
TodoMarker == "# TODO: Fix syntax error"
DefKw == "def "
ReturnKw == "return"
Colon == ":"
LParen == "("
RParen == ")"
\* the markdown fence (three backticks), bare and tagged "python"
Fence == "<fence>"
FencePython == "<fence>python"

SectionKeywords == {"Args:", "Returns:", "Yields:", "Raises:"}

\* the longest source text the endpoint accepts, in characters
MaxSourceLen == 100000

\* a block of text one character longer than that
HugeBlock == "<100001 characters>"

\* str.strip / str.lstrip with no argument remove whitespace.
IsSpace(t) == t \in {NL, SP}

-----------------------------------------------------------------------------
(* String operations *)

Spaces(n) == [k \in 1..n |-> SP]

RECURSIVE LStrip(_)
LStrip(s) ==
    IF s = <<>> THEN <<>>
    ELSE IF IsSpace(Head(s)) THEN LStrip(Tail(s)) ELSE s

RECURSIVE RStrip(_)
RStrip(s) ==
    IF s = <<>> THEN <<>>
    ELSE IF IsSpace(s[Len(s)]) THEN RStrip(SubSeq(s, 1, Len(s) - 1)) ELSE s

Strip(s) == RStrip(LStrip(s))

Contains(s, t) == \E k \in 1..Len(s) : s[k] = t

StartsWith(s, t) == Len(s) > 0 /\ s[1] = t

EndsWith(s, t) == Len(s) > 0 /\ s[Len(s)] = t

\* number of characters of a token
Width(t) ==
    IF t = Fence THEN 3
    ELSE IF t = FencePython THEN 9
    ELSE IF t = HugeBlock THEN MaxSourceLen + 1
    ELSE Len(t)

\* len(s): number of characters of a text
RECURSIVE CharLen(_)
CharLen(s) == IF s = <<>> THEN 0 ELSE Width(Head(s)) + CharLen(Tail(s))

\* str.split('\n'): always at least one piece
RECURSIVE SplitNewline(_)
SplitNewline(s) ==
    IF ~Contains(s, NL) THEN <<s>>
    ELSE LET k == CHOOSE j \in 1..Len(s) :
                      s[j] = NL /\ \A m \in 1..(j - 1) : s[m] # NL
         IN <<SubSeq(s, 1, k - 1)>> \o SplitNewline(SubSeq(s, k + 1, Len(s)))

\* '\n'.join(ls)
RECURSIVE JoinNewline(_)
JoinNewline(ls) ==
    IF ls = <<>> THEN <<>>
    ELSE IF Len(ls) = 1 THEN ls[1]
    ELSE ls[1] \o <<NL>> \o JoinNewline(Tail(ls))

-----------------------------------------------------------------------------
(* fix_docstring_indentation *)

\* len(line) - len(line.lstrip())
LeadingWidth(line) == CharLen(line) - CharLen(LStrip(line))

StartsWithSection(stripped) == Len(stripped) > 0 /\ stripped[1] \in SectionKeywords

\* the line the scanner emits for a line read inside a block (lines 166-178)
EmitInside(line, indent) ==
    LET stripped == LStrip(line) IN
    IF StartsWithSection(stripped)
    THEN Spaces(indent + 4) \o stripped
    ELSE IF stripped # <<>> /\ ~StartsWith(stripped, TripleQuote)
    THEN IF LeadingWidth(line) <= indent + 4
         THEN Spaces(indent + 8) \o stripped
         ELSE line
    ELSE line

\* the exit test of line 180
ExitsDocstring(line) ==
    /\ Contains(line, TripleQuote)
    /\ EndsWith(Strip(line), TripleQuote)
    /\ ~StartsWith(Strip(line), TripleQuote)

\* one iteration of the while loop on scanner state st = [in, indent]
ScanLine(st, line) ==
    IF Contains(line, TripleQuote) /\ ~st.in
    THEN [in |-> TRUE, indent |-> LeadingWidth(line), out |-> line]
    ELSE IF st.in
    THEN IF ExitsDocstring(line)
         THEN [in |-> FALSE, indent |-> 0, out |-> EmitInside(line, st.indent)]
         ELSE [in |-> TRUE, indent |-> st.indent, out |-> EmitInside(line, st.indent)]
    ELSE [in |-> FALSE, indent |-> st.indent, out |-> line]

RECURSIVE ScanLines(_, _)
ScanLines(st, ls) ==
    IF ls = <<>> THEN <<>>
    ELSE LET r == ScanLine(st, Head(ls))
         IN <<r.out>> \o ScanLines([in |-> r.in, indent |-> r.indent], Tail(ls))

fix_docstring_indentation(text) ==
    JoinNewline(ScanLines([in |-> FALSE, indent |-> 0], SplitNewline(text)))

-----------------------------------------------------------------------------
(* extract_text_from_response *)

\* Python values a provider response is made of.  Every value is a record
\* [tag, val]: a str, a list, a dict (its "text" and "content" entries,
\* Absent when the key is missing), an object with a .content attribute
\* (the provider's message class), None.
Str(s) == [tag |-> "str", val |-> s]
Lst(items) == [tag |-> "list", val |-> items]
Dct(t, c) == [tag |-> "dict", val |-> <<t, c>>]
Msg(c) == [tag |-> "message", val |-> c]
NoneValue == [tag |-> "none", val |-> <<>>]
Absent == [tag |-> "absent", val |-> <<>>]

\* an exception in flight: its class and its message
Raised(cls, msg) == [tag |-> "raise", val |-> <<cls, msg>>]

\* str(x) of a value that is no str
StrOf(v) == IF v.tag = "none" THEN <<"None">> ELSE <<"<repr>">>

\* lines 118-123: what one list item contributes to texts
ItemText(item) ==
    IF item.tag = "dict"
    THEN IF item.val[1] # Absent THEN item.val[1]
         ELSE IF item.val[2] # Absent THEN item.val[2]
         ELSE Str(StrOf(item))
    ELSE IF item.tag = "str" THEN item
    ELSE Str(StrOf(item))

RECURSIVE Concat(_)
Concat(texts) ==
    IF texts = <<>> THEN <<>> ELSE Head(texts).val \o Concat(Tail(texts))

\* line 124: ''.join(texts) raises TypeError on an item that is no str
JoinTexts(texts) ==
    IF \A k \in 1..Len(texts) : texts[k].tag = "str"
    THEN Str(Concat(texts))
    ELSE Raised("TypeError", <<"sequence item: expected str instance">>)

RECURSIVE extract_text_from_response(_)
extract_text_from_response(resp) ==
    LET content == IF resp.tag = "message" THEN resp.val ELSE resp IN
    IF content.tag = "str" THEN content
    ELSE IF content.tag = "list"
    THEN JoinTexts([k \in 1..Len(content.val) |-> ItemText(content.val[k])])
    ELSE IF content.tag = "dict"
    THEN IF content.val[1] # Absent THEN content.val[1]
         ELSE IF content.val[2] # Absent
         THEN extract_text_from_response(content.val[2])
         ELSE Str(StrOf(content))
    ELSE Str(StrOf(content))

-----------------------------------------------------------------------------
(* clean_output *)

\* a fragment no Python parser accepts, such as "= ="
Malformed == "= ="

\* tokens made of word characters only (the regular expression's \w)
WordTokens == {"f", "x", "int", "import", "os", "pass", ReturnKw}

\* str.splitlines(): no piece for the end of the text after a final newline
SplitLines(s) ==
    IF s = <<>> THEN <<>>
    ELSE LET p == SplitNewline(s)
         IN IF p[Len(p)] = <<>> THEN SubSeq(p, 1, Len(p) - 1) ELSE p

RECURSIVE Count(_, _)
Count(s, t) ==
    IF s = <<>> THEN 0
    ELSE (IF Head(s) = t THEN 1 ELSE 0) + Count(Tail(s), t)

\* nesting depth of parentheses after s, -1 once a ")" had no "("
RECURSIVE ParenDepth(_, _)
ParenDepth(s, d) ==
    IF d < 0 THEN -1
    ELSE IF s = <<>> THEN d
    ELSE IF Head(s) = LParen THEN ParenDepth(Tail(s), d + 1)
    ELSE IF Head(s) = RParen THEN ParenDepth(Tail(s), d - 1)
    ELSE ParenDepth(Tail(s), d)

\* ast.parse(code) succeeds: no malformed fragment, parentheses paired, and
\* no block header left without a body
is_valid_python(text) ==
    /\ ~Contains(text, Malformed)
    /\ ParenDepth(text, 0) = 0
    /\ ~EndsWith(Strip(text), Colon)

HasTodo(line) == Contains(line, TodoMarker)

\* line 204 testing line.startswith(marker) instead of marker in line
WithoutTodoStartsWith(ls) == SelectSeq(ls, LAMBDA line : ~StartsWith(line, TodoMarker))

\* line 204
WithoutTodo(ls) == SelectSeq(ls, LAMBDA line : ~HasTodo(line))

\* 'return' in cleaned
ContainsReturn(s) == Contains(s, ReturnKw)

\* positions of the two delimiters matched by """(.*?)""" (DOTALL), <<>> if none
DocstringMatch(s) ==
    IF Count(s, TripleQuote) < 2 THEN <<>>
    ELSE LET a == CHOOSE j \in 1..Len(s) :
                      s[j] = TripleQuote /\ \A m \in 1..(j - 1) : s[m] # TripleQuote
             b == CHOOSE j \in (a + 1)..Len(s) :
                      s[j] = TripleQuote /\ \A m \in (a + 1)..(j - 1) : s[m] # TripleQuote
         IN <<a, b>>

\* def \w+\([^)]*\): matches at p and ends at e
SigMatchAt(s, p, e) ==
    /\ s[p] = DefKw
    /\ \E q \in (p + 2)..(e - 2) :
          /\ \A m \in (p + 1)..(q - 1) : s[m] \in WordTokens
          /\ s[q] = LParen
          /\ \A m \in (q + 1)..(e - 2) : s[m] # RParen
    /\ s[e - 1] = RParen
    /\ s[e] = Colon

\* re.search(r'def \w+\([^)]*\):', s): the leftmost match <<p, e>>, <<>> if none
SigMatch(s) ==
    LET hits == { pe \in (1..Len(s)) \X (1..Len(s)) : SigMatchAt(s, pe[1], pe[2]) }
    IN IF hits = {} THEN <<>>
       ELSE CHOOSE pe \in hits : \A o \in hits : pe[1] <= o[1]

\* tokens whose literal text holds a colon, and the text after that colon
ColonTail(t) ==
    IF t = TodoMarker THEN <<" Fix syntax error">>
    ELSE <<>>

HasColon(t) == t = Colon \/ t = TodoMarker \/ t \in SectionKeywords

\* re.search(r':\s*(.*)', s, re.DOTALL).group(1).strip(); NoMatch if no colon
NoMatch == <<"<no match>">>
BodyMatch(s) ==
    IF \A k \in 1..Len(s) : ~HasColon(s[k]) THEN NoMatch
    ELSE LET c == CHOOSE j \in 1..Len(s) :
                      HasColon(s[j]) /\ \A m \in 1..(j - 1) : ~HasColon(s[m])
         IN Strip(ColonTail(s[c]) \o SubSeq(s, c + 1, Len(s)))

\* the guard of the recovery step, lines 209-214
RecoveryApplies(text) ==
    /\ Count(text, DefKw) = 1
    /\ ~ContainsReturn(text)
    /\ DocstringMatch(text) # <<>>
    /\ SigMatch(text) # <<>>

\* lines 212-221
Recover(text, original) ==
    LET d == DocstringMatch(text)
        g == SigMatch(text)
        docstring == SubSeq(text, d[1], d[2])
        sig == SubSeq(text, g[1], g[2])
        body == BodyMatch(original)
    IN IF body # NoMatch
       THEN sig \o <<NL>> \o Spaces(4) \o docstring \o <<NL>> \o Spaces(4) \o body
       ELSE sig \o <<NL>> \o Spaces(4) \o docstring \o <<NL>> \o original

clean_output(out, original) ==
    LET ls == SplitLines(out)
        kept == IF is_valid_python(original) THEN WithoutTodo(ls) ELSE ls
        text == Strip(JoinNewline(kept))
    IN IF RecoveryApplies(text) THEN Recover(text, original) ELSE text

-----------------------------------------------------------------------------
(* generate_docstrings *)

ErrorEmpty == <<"# ", "Error:", " The provided source code is empty.">>
ErrorPrefix == "# Error generating docstrings: "

NoException == [tag |-> "none", val |-> <<>>]

\* classes derived from Exception that the provider or the pipeline raise
ExceptionClasses == {"TypeError", "AttributeError", "RuntimeError", "TimeoutError"}

\* line 237 without its test of source_code.strip()
IsBlankNoStrip(src) == src = <<>>

\* line 237
IsBlank(src) == src = <<>> \/ Strip(src) = <<>>

\* lines 245-250
StripFences(t) ==
    LET a == IF StartsWith(t, FencePython) THEN Tail(t) ELSE t
        b == IF StartsWith(a, Fence) THEN Tail(a) ELSE a
    IN IF EndsWith(b, Fence) THEN SubSeq(b, 1, Len(b) - 1) ELSE b

\* lines 242-258 on the provider's response: the returned str, or the
\* exception a step raised
PostProcess(src, resp) ==
    LET ext == extract_text_from_response(resp) IN
    IF ext.tag = "raise" THEN ext
    ELSE IF ext.tag # "str"
    THEN Raised("AttributeError", <<"object has no attribute 'strip'">>)
    ELSE Str(Strip(fix_docstring_indentation(
                 clean_output(StripFences(Strip(ext.val)), src))))

\* line 260 catching the provider's errors only
CatchesProviderErrors(cls) == cls \in {"RuntimeError", "TimeoutError"}

\* line 260: except Exception
Catches(cls) == cls \in ExceptionClasses

\* line 261
ErrorString(msg) == <<ErrorPrefix>> \o msg

\* the call of the provider (line 241) either returns a response or raises
generate_docstrings(src, outcome) ==
    IF IsBlank(src)
    THEN [ret |-> ErrorEmpty, at |-> "empty", exc |-> NoException, calls |-> 0]
    ELSE LET r == IF outcome.tag = "raise" THEN outcome
                  ELSE PostProcess(src, outcome)
         IN IF r.tag = "raise"
            THEN IF Catches(r.val[1])
                 THEN [ret |-> ErrorString(r.val[2]), at |-> "except",
                       exc |-> r, calls |-> 1]
                 ELSE [ret |-> <<>>, at |-> "propagated", exc |-> r, calls |-> 1]
            ELSE [ret |-> r.val, at |-> "success", exc |-> NoException,
                  calls |-> 1]

-----------------------------------------------------------------------------
(* The endpoint POST /api/generate *)

FailMessage == "Failed or empty input."
SuccessMessage == "Docstrings generated successfully!"

\* tokens whose literal text holds "Error:"
ErrorColonTokens == {"Error:", "ValueError:"}

\* "Error:" in documented_code
ContainsErrorColon(s) == \E k \in 1..Len(s) : s[k] \in ErrorColonTokens

\* line 12
TooLarge(src) == CharLen(src) > MaxSourceLen

\* lines 17-20
StatusMessage(documented) ==
    IF ContainsErrorColon(documented) THEN FailMessage ELSE SuccessMessage

-----------------------------------------------------------------------------
(* Inputs of the scanner *)

MaxLines == 4

Indents == {4, 12}

LineBodies ==
    { <<>>,
      <<TripleQuote>>,
      <<TripleQuote, "Doc.">>,
      <<"Doc.", TripleQuote>>,
      <<TripleQuote, "Doc.", TripleQuote>>,
      <<"Args:">>,
      <<"Doc.">> }

LineSet == { Spaces(n) \o b : n \in Indents, b \in LineBodies }

\* the texts of at most max lines
FixInputs(max) ==
    UNION { { JoinNewline(ls) : ls \in [1..n -> LineSet] } : n \in 1..max }

(* Inputs of the extractor *)

MaxNesting == 2
MaxItems == 2

Leaves == {Str(<<"a">>), Str(<<"b">>), NoneValue}

ListsOver(X) == UNION { { Lst(items) : items \in [1..n -> X] } : n \in 0..MaxItems }

DictsOver(X) == { Dct(t, c) : t \in X \cup {Absent}, c \in X \cup {Absent} }

\* values nested n deep; a value without items is nested 0 deep
RECURSIVE ValuesUpTo(_)
ValuesUpTo(n) ==
    IF n = 0 THEN Leaves \cup {Lst(<<>>), Dct(Absent, Absent)}
    ELSE LET X == ValuesUpTo(n - 1)
         IN X \cup ListsOver(X) \cup DictsOver(X)

\* the provider answers with a value or with a message object holding one
ResponseValues(n) == ValuesUpTo(n) \cup { Msg(c) : c \in ValuesUpTo(n) }

(* Inputs of the cleaner *)

SigPlain == <<DefKw, "f", LParen, "x", RParen, Colon>>
SigTyped == <<DefKw, "f", LParen, "x", Colon, SP, "int", RParen, Colon>>
DocOne == <<TripleQuote, "Doc.", TripleQuote>>
TodoLine == Spaces(4) \o <<TodoMarker>>

Sigs == {SigPlain, SigTyped}
Bodies == { <<"pass">>, <<ReturnKw, SP, "x">>, <<"x", SP, Malformed>> }

Opt(part) == {<<>>, <<NL>> \o part}

GeneratedTexts ==
    { pre \o sig \o todo \o doc \o body \o post :
        pre \in {<<>>, <<NL>>, <<"import", SP, "os", NL>>},
        sig \in Sigs,
        todo \in Opt(TodoLine),
        doc \in Opt(Spaces(4) \o DocOne),
        body \in {<<>>} \cup { <<NL>> \o Spaces(4) \o b : b \in Bodies },
        post \in {<<>>, <<NL>>, <<NL>> \o TodoLine} }

OriginalTexts ==
    { pre \o sig \o <<NL>> \o Spaces(4) \o b :
        pre \in {<<>>, <<"import", SP, "os", NL>>, <<"x", Colon, SP, "int", NL>>},
        sig \in Sigs,
        b \in Bodies }
    \cup { <<"x">>, <<"x", SP, Malformed>> }

(* Inputs of the endpoint *)

MaxRequests == 2

DocText == SigPlain \o <<NL>> \o Spaces(4) \o DocOne
           \o <<NL>> \o Spaces(4) \o <<ReturnKw, SP, "x">>

RaisesText == SigPlain \o <<NL>> \o Spaces(4) \o <<TripleQuote, "Doc.", NL>>
              \o Spaces(4) \o <<"Raises:", NL>>
              \o Spaces(8) \o <<"ValueError:", " if x is bad", NL>>
              \o Spaces(4) \o <<TripleQuote, NL>>
              \o Spaces(4) \o <<ReturnKw, SP, "x">>

Sources ==
    { <<>>, <<SP>>, <<NL, SP>>,
      SigPlain \o <<NL>> \o Spaces(4) \o <<ReturnKw, SP, "x">>,
      SigPlain \o <<NL>> \o Spaces(4) \o <<"x", SP, Malformed>>,
      SigTyped \o <<NL>> \o Spaces(4) \o <<"pass">>,
      <<HugeBlock>> }

ProviderOutcomes ==
    { Msg(Str(DocText)),
      Msg(Str(<<FencePython, NL>> \o DocText \o <<NL, Fence>>)),
      Msg(Str(RaisesText)),
      Msg(Str(SigPlain \o <<NL>> \o TodoLine \o <<NL>> \o Spaces(4) \o DocOne)),
      Str(DocText),
      Msg(Lst(<<Dct(Str(DocText), Absent)>>)),
      Msg(Lst(<<Dct(Absent, Lst(<<Str(DocText)>>))>>)),
      Dct(Lst(<<Str(DocText)>>), Absent),
      Msg(Str(<<>>)),
      NoneValue,
      Raised("TimeoutError", <<"timed out">>),
      Raised("RuntimeError", <<"Error:", " 429 quota exceeded">>) }

-----------------------------------------------------------------------------
(* States at rest of the operations a specification does not run *)

FixIdle ==
    /\ code = <<>>
    /\ lines = <<>>
    /\ i = 0
    /\ in_docstring = FALSE
    /\ docstring_indent = 0
    /\ fixed_lines = <<>>
    /\ fixed = <<>>

ExtractIdle ==
    /\ response = NoneValue
    /\ extracted = NoneValue

CleanIdle ==
    /\ output = <<>>
    /\ original_code = <<>>
    /\ cleaned = <<>>

HttpIdle ==
    /\ source_code = <<>>
    /\ documented_code = <<>>
    /\ returned_at = "none"
    /\ exception = NoException
    /\ llm_calls = 0
    /\ status = 0
    /\ message = ""
    /\ requests = 0

-----------------------------------------------------------------------------
(* fix_docstring_indentation, one loop iteration per step *)

InitFix ==
    /\ pc = "fix_entry"
    /\ code \in FixInputs(MaxLines)
    /\ lines = <<>>
    /\ i = 0
    /\ in_docstring = FALSE
    /\ docstring_indent = 0
    /\ fixed_lines = <<>>
    /\ fixed = <<>>
    /\ ExtractIdle /\ CleanIdle /\ HttpIdle

\* lines 149-153
FixEnter ==
    /\ pc = "fix_entry"
    /\ lines' = SplitNewline(code)
    /\ fixed_lines' = <<>>
    /\ i' = 0
    /\ in_docstring' = FALSE
    /\ docstring_indent' = 0
    /\ pc' = "fix_loop"
    /\ UNCHANGED <<code, fixed, extractVars, cleanVars, httpVars>>

\* lines 155-187
FixStep ==
    /\ pc = "fix_loop"
    /\ i < Len(lines)
    /\ LET r == ScanLine([in |-> in_docstring, indent |-> docstring_indent],
                         lines[i + 1])
       IN /\ in_docstring' = r.in
          /\ docstring_indent' = r.indent
          /\ fixed_lines' = Append(fixed_lines, r.out)
    /\ i' = i + 1
    /\ UNCHANGED <<pc, code, lines, fixed, extractVars, cleanVars, httpVars>>

\* line 189
FixReturn ==
    /\ pc = "fix_loop"
    /\ i >= Len(lines)
    /\ fixed' = JoinNewline(fixed_lines)
    /\ pc' = "fix_done"
    /\ UNCHANGED <<code, lines, i, in_docstring, docstring_indent, fixed_lines,
                   extractVars, cleanVars, httpVars>>

NextFix == FixEnter \/ FixStep \/ FixReturn

SpecFix == InitFix /\ [][NextFix]_vars

-----------------------------------------------------------------------------
(* extract_text_from_response on every response shape *)

InitExtract ==
    /\ pc = "extract_entry"
    /\ response \in ResponseValues(MaxNesting)
    /\ extracted = NoneValue
    /\ FixIdle /\ CleanIdle /\ HttpIdle

Extract ==
    /\ pc = "extract_entry"
    /\ extracted' = extract_text_from_response(response)
    /\ pc' = "extract_done"
    /\ UNCHANGED <<response, fixVars, cleanVars, httpVars>>

NextExtract == Extract

SpecExtract == InitExtract /\ [][NextExtract]_vars

-----------------------------------------------------------------------------
(* clean_output on generated and original texts *)

InitClean ==
    /\ pc = "clean_entry"
    /\ output \in GeneratedTexts
    /\ original_code \in OriginalTexts
    /\ cleaned = <<>>
    /\ FixIdle /\ ExtractIdle /\ HttpIdle

CleanOutput ==
    /\ pc = "clean_entry"
    /\ cleaned' = clean_output(output, original_code)
    /\ pc' = "clean_done"
    /\ UNCHANGED <<output, original_code, fixVars, extractVars, httpVars>>

NextClean == CleanOutput

SpecClean == InitClean /\ [][NextClean]_vars

-----------------------------------------------------------------------------
(* The request handler and the endpoint *)

Init ==
    /\ pc = "serving"
    /\ FixIdle /\ ExtractIdle /\ CleanIdle /\ HttpIdle

\* a direct call of generate_docstrings(src); the provider answers with outcome
CallGenerateDocstrings(src, outcome) ==
    /\ requests < MaxRequests
    /\ LET r == generate_docstrings(src, outcome)
       IN /\ documented_code' = r.ret
          /\ returned_at' = r.at
          /\ exception' = r.exc
          /\ llm_calls' = llm_calls + r.calls
    /\ source_code' = src
    /\ status' = 0
    /\ message' = ""
    /\ requests' = requests + 1
    /\ UNCHANGED <<pc, fixVars, extractVars, cleanVars>>

\* POST /api/generate with request.source_code = src
Generate(src, outcome) ==
    /\ requests < MaxRequests
    /\ source_code' = src
    /\ requests' = requests + 1
    /\ IF TooLarge(src)
       THEN /\ status' = 413
            /\ message' = ""
            /\ documented_code' = <<>>
            /\ returned_at' = "none"
            /\ exception' = NoException
            /\ llm_calls' = llm_calls
       ELSE LET r == generate_docstrings(src, outcome)
            IN /\ documented_code' = r.ret
               /\ returned_at' = r.at
               /\ exception' = r.exc
               /\ llm_calls' = llm_calls + r.calls
               /\ status' = IF r.at = "propagated" THEN 500 ELSE 200
               /\ message' = IF r.at = "propagated" THEN ""
                             ELSE StatusMessage(r.ret)
    /\ UNCHANGED <<pc, fixVars, extractVars, cleanVars>>

Next ==
    \/ \E src \in Sources, outcome \in ProviderOutcomes :
          CallGenerateDocstrings(src, outcome)
    \/ \E src \in Sources, outcome \in ProviderOutcomes :
          Generate(src, outcome)

Spec == Init /\ [][Next]_vars

-----------------------------------------------------------------------------
(* Notions the properties are stated with *)

\* a text that is empty or holds whitespace only
AllWhitespace(s) == \A k \in 1..Len(s) : s[k] \in {NL, SP}

\* sub occurs in s
ContainsText(s, sub) ==
    \E k \in 0..(Len(s) - Len(sub)) : SubSeq(s, k + 1, k + Len(sub)) = sub

\* the lines of ls that do not hold the sentinel marker comment, in order
MarkerFree(ls) == SelectSeq(ls, LAMBDA line : ~Contains(line, TodoMarker))

\* the text clean_output holds before its recovery step
BeforeRecovery(out, original) ==
    Strip(JoinNewline(IF is_valid_python(original)
                      THEN MarkerFree(SplitLines(out))
                      ELSE SplitLines(out)))

\* the statements of a text that follow the colon ending its signature
BodyAfterSignature(original) ==
    Strip(SubSeq(original, SigMatch(original)[2] + 1, Len(original)))

\* the response shapes extractText is specified for
RECURSIVE Shaped(_)
ShapedMapping(d) ==
    /\ d.val[1] # Absent => d.val[1].tag = "str"
    /\ d.val[2] # Absent => Shaped(d.val[2])
Shaped(v) ==
    \/ v.tag = "str"
    \/ v.tag = "dict" /\ ShapedMapping(v)
    \/ /\ v.tag = "list"
       /\ \A k \in 1..Len(v.val) :
             \/ v.val[k].tag = "str"
             \/ v.val[k].tag = "dict" /\ ShapedMapping(v.val[k])

\* the documentation block open after the first k lines of ls, and the
\* indentation of its opening line: every triple quote opens or closes one
QuoteCount(line) == Count(line, TripleQuote)
RECURSIVE BlockAfter(_, _)
BlockAfter(ls, k) ==
    IF k = 0 THEN [open |-> FALSE, base |-> 0]
    ELSE LET prev == BlockAfter(ls, k - 1)
             n == QuoteCount(ls[k])
         IN IF n = 0 THEN prev
            ELSE IF n % 2 = 0
            THEN IF prev.open
                 THEN [open |-> TRUE, base |-> LeadingWidth(ls[k])]
                 ELSE prev
            ELSE IF prev.open
                 THEN [open |-> FALSE, base |-> 0]
                 ELSE [open |-> TRUE, base |-> LeadingWidth(ls[k])]

\* no block among the first k lines opens and closes on one line
NoSameLineBlock(ls, k) == \A m \in 1..k : QuoteCount(ls[m]) < 2

-----------------------------------------------------------------------------
(* Properties *)

\* C1: generate_docstrings on a source text that is empty or whitespace only
\* returns the fixed empty-input error string, and the provider is not
\* invoked during that call.
C1_EmptyInputNoProviderCall ==
    [][ (requests' = requests + 1 /\ status' # 413 /\ AllWhitespace(source_code'))
        => (documented_code' = ErrorEmpty /\ llm_calls' = llm_calls) ]_vars

C1_Witness ==
    /\ requests > 0
    /\ source_code # <<>>
    /\ AllWhitespace(source_code)
    /\ returned_at = "empty"
    /\ documented_code = ErrorEmpty

\* C2: when the provider call or a post-processing step raises, the
\* exception is not propagated: generate_docstrings returns a string that
\* holds the error marker and the exception's message.
C2_ExceptionBecomesErrorString ==
    exception # NoException =>
        /\ returned_at = "except"
        /\ StartsWith(documented_code, ErrorPrefix)
        /\ ContainsText(documented_code, exception.val[2])

C2_Witness ==
    /\ exception # NoException
    /\ exception.val[1] = "TypeError"
    /\ returned_at = "except"

\* C3: at the endpoint a failure of generate_docstrings, whether the empty
\* input or an internal failure, is answered with the failure message.
C3_FailureReportedIdentically ==
    (status = 200 /\ returned_at \in {"empty", "except"}) => message = FailMessage

\* C4: extract_text_from_response returns a str, without raising, for every
\* response of the specified shapes.
C4_ExtractAlwaysReturnsString ==
    (pc = "extract_done" /\ Shaped(IF response.tag = "message" THEN response.val
                                   ELSE response))
        => extracted.tag = "str"

\* C5 as stated: with a valid original, the lines of the result are exactly
\* the lines of the generated text without the marker, in order.
C5_RemovesExactlyMarkerLines ==
    (pc = "clean_done" /\ is_valid_python(original_code))
        => SplitLines(cleaned) = MarkerFree(SplitLines(output))

\* C5 as amended: with a valid original, when the recovery step does not
\* apply, the result holds no marker and is the marker-free lines of the
\* generated text in order, joined by newlines, with the whitespace at the
\* two ends of the whole text trimmed.
C5_RemovesMarkerLinesThenTrims ==
    (/\ pc = "clean_done"
     /\ is_valid_python(original_code)
     /\ ~RecoveryApplies(BeforeRecovery(output, original_code)))
        => /\ ~Contains(cleaned, TodoMarker)
           /\ cleaned = Strip(JoinNewline(MarkerFree(SplitLines(output))))

C5_Witness ==
    /\ pc = "clean_done"
    /\ is_valid_python(original_code)
    /\ ~RecoveryApplies(BeforeRecovery(output, original_code))
    /\ Contains(output, TodoMarker)
    /\ StartsWith(output, NL)
    /\ cleaned # <<>>

\* C6: with an invalid original, every line of the generated text that holds
\* the marker is still a line of the result.
C6_InvalidOriginalKeepsMarkers ==
    (pc = "clean_done" /\ ~is_valid_python(original_code))
        => \A k \in 1..Len(SplitLines(output)) :
              Contains(SplitLines(output)[k], TodoMarker)
                  => \E m \in 1..Len(SplitLines(cleaned)) :
                        Strip(SplitLines(cleaned)[m]) = Strip(SplitLines(output)[k])

\* C7: a closing delimiter on a later line than the opening one ends the
\* block: the scanner is outside after it, and the lines outside of every
\* block are emitted unchanged.
C7_ExitsOnClosingDelimiter ==
    pc = "fix_loop" =>
        /\ (/\ i >= 1
            /\ NoSameLineBlock(lines, i)
            /\ BlockAfter(lines, i - 1).open
            /\ QuoteCount(lines[i]) = 1) => ~in_docstring
        /\ \A k \in 1..i :
              (/\ NoSameLineBlock(lines, k)
               /\ ~BlockAfter(lines, k - 1).open
               /\ QuoteCount(lines[k]) = 0) => fixed_lines[k] = lines[k]

\* C8: inside a block whose opening line has indentation b, a line that
\* begins with a section keyword is emitted at b+4; any other non-empty line
\* without a delimiter is emitted at b+8, or unchanged when it was indented
\* by more than b+4.  Stated for texts whose blocks span several lines.
C8_IndentsRelativeToBlock ==
    pc = "fix_loop" =>
        \A k \in 1..i :
            LET blk == BlockAfter(lines, k - 1)
                stripped == LStrip(lines[k])
            IN (/\ NoSameLineBlock(lines, k)
                /\ blk.open
                /\ QuoteCount(lines[k]) = 0
                /\ stripped # <<>>) =>
                  IF stripped[1] \in SectionKeywords
                  THEN fixed_lines[k] = Spaces(blk.base + 4) \o stripped
                  ELSE IF LeadingWidth(lines[k]) <= blk.base + 4
                  THEN fixed_lines[k] = Spaces(blk.base + 8) \o stripped
                  ELSE fixed_lines[k] = lines[k]

\* C9: when the recovery step applies, the result is the signature, the
\* documentation block indented by 4, and the statements of the original
\* that follow the colon ending its signature.
C9_RecoveredBodyIsFunctionBody ==
    (/\ pc = "clean_done"
     /\ RecoveryApplies(BeforeRecovery(output, original_code))
     /\ SigMatch(original_code) # <<>>)
        => LET text == BeforeRecovery(output, original_code)
               d == DocstringMatch(text)
               g == SigMatch(text)
           IN cleaned = SubSeq(text, g[1], g[2]) \o <<NL>> \o Spaces(4)
                        \o SubSeq(text, d[1], d[2]) \o <<NL>> \o Spaces(4)
                        \o BodyAfterSignature(original_code)

\* C10: at the endpoint a successfully transformed text is answered with the
\* success message, whatever the text holds.
C10_SuccessReportedAsSuccess ==
    (status = 200 /\ returned_at = "success") => message = SuccessMessage

====
